---------------------------- MODULE Spec2Model ----------------------------
(***************************************************************************)
(* A model of the promises-bootloader registry (class BootLoader, class    *)
(* Resource, buildResolvablePromise) and of the ECMAScript promise         *)
(* machinery it is built on (Promise.all, then, resolve-with-a-promise).   *)
(*                                                                         *)
(* Every promise reaction is one action; reactions that are queued at the  *)
(* same time may run in any order, which contains the FIFO order of the    *)
(* real microtask queue.  API calls (declareResource, promiseFor, for..of) *)
(* may happen between any two reactions, as they do when they are made     *)
(* from the main script or from inside a producer.                         *)
(*                                                                         *)
(* Resource names are own-property keys that do not shadow a member of     *)
(* Object.prototype: _resources and _promises are then plain maps.  The    *)
(* order of their properties is not kept: its one reader, the iterator,    *)
(* sorts the keys.                                                         *)
(***************************************************************************)
EXTENDS Naturals, Sequences, FiniteSets, TLC

(***************************************************************************)
(* Bounds                                                                  *)
(***************************************************************************)
\* most dependency entries (the lengths of `requires` summed) declared in one run
MaxEdges == 2
\* most placeholders that only outside promiseFor calls, and no resource, asked for
MaxDirect == 1
\* cap of the counters (provider calls, placeholders built per name)
MaxCount == 2
\* most dependency entries declared in a run that only declares resources
MaxCycleEdges == 3
\* most dependency entries declared in a run that also declares malformed definitions
MaxValidateEdges == 1
\* most resources declared when a malformed definition is tried
MaxValidateDeclared == 1

\* the resource names in use
Names == {"B", "a", "ab"}

\* the property keys _resources and _promises are read and written with: the
\* names, and the key a number in `requires` is converted to
PropertyKeys == Names \cup {"1"}

\* the UTF-16 code units of a key (for sort())
CodeUnits(s) ==
    CASE s = "B"  -> <<66>>
      [] s = "a"  -> <<97>>
      [] s = "ab" -> <<97, 98>>
      [] s = "1"  -> <<49>>

(***************************************************************************)
(* JavaScript values                                                       *)
(***************************************************************************)
Undefined == [t |-> "undefined"]
Null      == [t |-> "null"]
Num(k)    == [t |-> "number", n |-> k]
Bool(b)   == [t |-> "boolean", b |-> b]
Str(s)    == [t |-> "string", s |-> s]
Fn        == [t |-> "function"]
Arr(xs)   == [t |-> "array", items |-> xs]
Obj(f)    == [t |-> "object", fields |-> f]

\* the typeof operator
TypeOf(v) ==
    CASE v.t \in {"null", "array", "object"} -> "object"
      [] OTHER -> v.t

\* ToBoolean
Truthy(v) ==
    CASE v.t \in {"undefined", "null"} -> FALSE
      [] v.t = "string"  -> v.s # ""
      [] v.t = "boolean" -> v.b
      [] v.t = "number"  -> v.n # 0
      [] OTHER -> TRUE

\* Array.isArray
IsArray(v) == v.t = "array"

\* ToPropertyKey: the key obj[v] reads, of a string or of a one-digit number
ToPropertyKey(v) ==
    IF v.t = "string" THEN v.s
    ELSE <<"0", "1", "2", "3", "4", "5", "6", "7", "8", "9">>[v.n + 1]

(***************************************************************************)
(* class Resource                                                          *)
(***************************************************************************)
\* definition.f, of the properties name, requires, provider (the property
\* named after the resource: definition[name]), script, json, getScript and
\* ajax; an absent property is stored as undefined
Field(definition, f) ==
    IF definition.t = "object" THEN definition.fields[f] ELSE Undefined

\* a constructor that threw
Throw(e) == [error |-> e]

\* the override is ignored: always the built-in fetcher
Fetcher_BuiltIn(override, own, builtin) == builtin

\* typeof definition.getScript === 'function' ? definition.getScript : fetchScript
\* (and the same for ajax and fetchJson): which function the provider will call
Fetcher(override, own, builtin) ==
    IF TypeOf(override) = "function" THEN own ELSE builtin

\* the constructor without its check of conflicting sources
Conflicting_Unchecked(own, script, json) == FALSE

\* (this.provider !== void 0) && ((definition.json !== void 0) || (definition.script !== void 0))
Conflicting(own, script, json) ==
    own # Undefined /\ (json # Undefined \/ script # Undefined)

\* new Resource(definition): the Resource built, or the error thrown
Resource(definition) ==
    LET name     == Field(definition, "name")
        given    == Field(definition, "requires")
        requires == IF TypeOf(given) = "string" THEN Arr(<<given>>)
                    ELSE IF ~Truthy(given) THEN Arr(<<>>)
                    ELSE given
        own      == Field(definition, "provider")
        script   == Field(definition, "script")
        json     == Field(definition, "json")
        getScript == Fetcher(Field(definition, "getScript"), "getScript", "fetchScript")
        ajax     == Fetcher(Field(definition, "ajax"), "ajax", "fetchJson")
        provider == IF script # Undefined THEN [kind |-> "script", calls |-> getScript, url |-> script]
                    ELSE IF json # Undefined THEN [kind |-> "json", calls |-> ajax, url |-> json]
                    ELSE [kind |-> "function", calls |-> "provider", url |-> Undefined]
    IN  IF TypeOf(definition) # "object" THEN Throw("InvalidResourceError")
        ELSE IF definition = Null THEN Throw("TypeError")
        ELSE IF ~Truthy(name) THEN Throw("UnnamedResourceError")
        ELSE IF ~IsArray(requires) THEN Throw("InvalidRequiresError")
        ELSE IF Conflicting(own, script, json) THEN Throw("InvalidResourceError")
        ELSE IF script # Undefined /\ TypeOf(script) # "string" THEN Throw("InvalidUrlError")
        ELSE IF script = Undefined /\ json # Undefined /\ TypeOf(json) # "string"
             THEN Throw("InvalidUrlError")
        ELSE IF script = Undefined /\ json = Undefined /\ TypeOf(own) # "function"
             THEN Throw("InvalidProviderError")
        ELSE [error |-> "none", name |-> name.s,
              requires |-> requires.items,
              provider |-> provider]

(***************************************************************************)
(* Promises                                                                *)
(***************************************************************************)
NoValue == <<>>

\* what the producer of resource n hands back: its value (returned, or the
\* value of the future it returned) or its failure (thrown, or the future's)
Value(n)   == <<"value", n>>
Failure(n) == <<"failure", n>>

Pending        == [state |-> "pending", value |-> NoValue]
Fulfilled(v)   == [state |-> "fulfilled", value |-> v]
RejectedWith(e) == [state |-> "rejected", value |-> e]
Settled(p)     == p.state \in {"fulfilled", "rejected"}

\* references to the promise objects the registry hands out
ResourcePromise(name) == [kind |-> "resource", name |-> name, id |-> 0]
SlotPromise(name, id) == [kind |-> "slot", name |-> name, id |-> id]

VARIABLES
    resources,  \* this._resources: per name, the Resource stored under it
    promises,   \* the keys of this._promises: the names that own a placeholder
    slot,       \* per name, the promise buildResolvablePromise made for it
    built,      \* per name, how many times buildResolvablePromise ran for it
    all,        \* per name, the Promise.all(...) of its resource
    promise,    \* per name, resource.promise
    result,     \* per name, what resolveWith returned: Promise.resolve(provider(...))
    invoked,    \* per name, how many times the provider was called
    args,       \* per name, the arguments of the provider's call
    thrown,     \* what the last declareResource call threw ("none": it returned)
    last,       \* the argument of the last declareResource call, as the constructor sees it
    fetches,    \* per name, the calls its provider made to a fetcher: <<function, url>>
    xhr         \* a fetchJson call: the transport's answer, the promise of xhrFetch, its own

vars == <<resources, promises, slot, built, all, promise, result, invoked, args, thrown,
          last, fetches, xhr>>

\* what the constructor examines of a value: its type and whether it is truthy
Kind(v) == [t |-> v.t, truthy |-> Truthy(v)]

\* what the constructor examines of a definition
Shape(definition) ==
    [definition |-> Kind(definition),
     name       |-> Kind(Field(definition, "name")),
     requires   |-> Kind(Field(definition, "requires")),
     strings    |-> LET given == Field(definition, "requires")
                    IN  IsArray(given) => \A i \in 1..Len(given.items) : given.items[i].t = "string",
     provider   |-> Kind(Field(definition, "provider")),
     script     |-> Kind(Field(definition, "script")),
     json       |-> Kind(Field(definition, "json")),
     getScript  |-> Kind(Field(definition, "getScript")),
     ajax       |-> Kind(Field(definition, "ajax"))]

\* before the first declareResource call
NoCall == [definition |-> [t |-> "none", truthy |-> FALSE]]

\* no fetchJson call is under way
NoXhr == [stage |-> "none"]

\* what reading an absent property gives
NoResource == [error |-> "undefined"]

\* Object.keys(this._resources)
Keys(rs) == {n \in PropertyKeys : rs[n] # NoResource}

Declared == Keys(resources)

\* resourceByName(name): this._resources[name]
resourceByName(rs, name) == rs[name]

\* a placeholder that is born settled
buildResolvablePromise_Resolved == [state |-> "fulfilled", value |-> NoValue]

\* buildResolvablePromise(): a fresh pending promise carrying its own resolve
buildResolvablePromise == [state |-> "pending", value |-> NoValue]

\* promiseFor without `if (resource) return resource.promise`
promiseFor_NoLookup(reg, name) ==
    IF name \in reg.promises
    THEN [reg |-> reg, returned |-> SlotPromise(name, reg.built[name])]
    ELSE [reg |-> [reg EXCEPT !.promises = @ \cup {name},
                              !.slot[name] = buildResolvablePromise,
                              !.built[name] = IF @ < MaxCount THEN @ + 1 ELSE @],
          returned |-> SlotPromise(name, IF reg.built[name] < MaxCount
                                         THEN reg.built[name] + 1 ELSE reg.built[name])]

\* promiseFor without `if (this._promises[name]) return this._promises[name]`
promiseFor_Rebuild(reg, name) ==
    IF resourceByName(reg.resources, name) # NoResource
    THEN [reg |-> reg, returned |-> ResourcePromise(name)]
    ELSE [reg |-> [reg EXCEPT !.promises = @ \cup {name},
                              !.slot[name] = buildResolvablePromise,
                              !.built[name] = IF @ < MaxCount THEN @ + 1 ELSE @],
          returned |-> SlotPromise(name, IF reg.built[name] < MaxCount
                                         THEN reg.built[name] + 1 ELSE reg.built[name])]

\* promiseFor(name) on the registry reg = [resources, promises, slot, built]:
\* the registry afterwards and the promise returned
promiseFor(reg, name) ==
    IF resourceByName(reg.resources, name) # NoResource
    THEN [reg |-> reg, returned |-> ResourcePromise(name)]
    ELSE IF name \in reg.promises
    THEN [reg |-> reg, returned |-> SlotPromise(name, reg.built[name])]
    ELSE [reg |-> [reg EXCEPT !.promises = @ \cup {name},
                              !.slot[name] = buildResolvablePromise,
                              !.built[name] = IF @ < MaxCount THEN @ + 1 ELSE @],
          returned |-> SlotPromise(name, IF reg.built[name] < MaxCount
                                         THEN reg.built[name] + 1 ELSE reg.built[name])]

\* the map, with its results collected in reverse
RECURSIVE MapPromiseFor_Reversed(_, _)
MapPromiseFor_Reversed(reg, requires) ==
    IF requires = <<>> THEN [reg |-> reg, returned |-> <<>>]
    ELSE LET first == promiseFor(reg, ToPropertyKey(Head(requires)))
             rest  == MapPromiseFor_Reversed(first.reg, Tail(requires))
         IN  [reg |-> rest.reg, returned |-> rest.returned \o <<first.returned>>]

\* resource.requires.map((name) => this.promiseFor(name)), left to right
RECURSIVE MapPromiseFor(_, _)
MapPromiseFor(reg, requires) ==
    IF requires = <<>> THEN [reg |-> reg, returned |-> <<>>]
    ELSE LET first == promiseFor(reg, ToPropertyKey(Head(requires)))
             rest  == MapPromiseFor(first.reg, Tail(requires))
         IN  [reg |-> rest.reg, returned |-> <<first.returned>> \o rest.returned]

\* Promise.all(elements): fulfilled at once with [] when there is nothing to wait for
PromiseAll(elements) ==
    [state    |-> IF elements = <<>> THEN "fulfilled" ELSE "pending",
     elements |-> elements,
     values   |-> [i \in 1..Len(elements) |-> NoValue],
     seen     |-> {},
     reason   |-> NoValue]

NoAll == [state |-> "none", elements |-> <<>>, values |-> <<>>, seen |-> {}, reason |-> NoValue]
NoResult == [state |-> "none", value |-> NoValue]
(***************************************************************************)
(* class BootLoader                                                        *)
(***************************************************************************)
\* constructor()
Init ==
    /\ resources = [n \in PropertyKeys |-> NoResource]
    /\ promises = {}
    /\ slot = [n \in PropertyKeys |-> [state |-> "none", value |-> NoValue]]
    /\ built = [n \in PropertyKeys |-> 0]
    /\ all = [n \in PropertyKeys |-> NoAll]
    /\ promise = [n \in PropertyKeys |-> [state |-> "none", value |-> NoValue]]
    /\ result = [n \in PropertyKeys |-> NoResult]
    /\ invoked = [n \in PropertyKeys |-> 0]
    /\ args = [n \in PropertyKeys |-> <<>>]
    /\ thrown = "none"
    /\ last = NoCall
    /\ fetches = [n \in PropertyKeys |-> <<>>]
    /\ xhr = NoXhr

Registry == [resources |-> resources, promises |-> promises, slot |-> slot, built |-> built]

\* this._resources[resource.name] = resource
Store(rs, resource) == [rs EXCEPT ![resource.name] = resource]

\* declareResource without the duplicate check
IsDuplicate_Never(rs, name) == FALSE

\* if (this._resources[resource.name]) throw new DuplicateResourceNameError(...)
IsDuplicate(rs, name) == resourceByName(rs, name) # NoResource

\* declareResource that never settles the placeholder
HasSlot_Never(reg, name) == FALSE

\* if (this._promises[name] && this._promises[name].resolve): the placeholder to settle
HasSlot(reg, name) == name \in reg.promises

\* the placeholder resolved with a plain value instead of resource.promise
ResolveSlot_Copy == [state |-> "fulfilled", value |-> NoValue]

\* this._promises[name].resolve(resource.promise): the placeholder is locked
\* to resource.promise and will take its outcome
ResolveSlot == [state |-> "following", value |-> NoValue]

\* declareResource without `delete this._promises[name]`
DeleteSlot_Forgotten(ps, name) == ps

\* delete this._promises[name]
DeleteSlot(ps, name) == ps \ {name}

\* what declareResource(definition) throws in the current state, "none" if it returns
Throws(definition) ==
    LET resource == Resource(definition)
    IN  IF resource.error # "none" THEN resource.error
        ELSE IF IsDuplicate(resources, resource.name) THEN "DuplicateResourceNameError"
        ELSE "none"

\* the duplicate name noticed only after the dependencies are mapped and the
\* resource stored
ThrowsFirst_ConstructorOnly(definition) == Resource(definition).error # "none"

\* both throw statements come before anything is written: the constructor's,
\* and the duplicate check's
ThrowsFirst(definition) == Throws(definition) # "none"

\* the provider called at once when there is nothing to wait for
InvokedByDeclare_AtOnce(name, elements) ==
    IF elements = <<>> THEN [invoked EXCEPT ![name] = 1] ELSE invoked

\* Promise.all(...).then(...) only registers the callback: also when the
\* Promise.all is already fulfilled, the provider is not called by declareResource
InvokedByDeclare(name, elements) == invoked

\* declareResource(resourceDefinition)
declareResource(definition) ==
    LET resource == Resource(definition)
    IN  /\ thrown' = Throws(definition)
        /\ last' = Shape(definition)
        /\ UNCHANGED <<fetches, xhr>>
        /\ IF ThrowsFirst(definition)
           THEN UNCHANGED <<resources, promises, slot, built, all, promise, result, invoked, args>>
           ELSE LET name   == resource.name
                    mapped == MapPromiseFor(Registry, resource.requires)
                    reg    == mapped.reg
                IN  /\ all' = [all EXCEPT ![name] = PromiseAll(mapped.returned)]
                    /\ promise' = [promise EXCEPT ![name] = Pending]
                    /\ result' = [result EXCEPT ![name] = NoResult]
                    /\ IF HasSlot(reg, name)
                       THEN /\ slot' = [reg.slot EXCEPT ![name] = ResolveSlot]
                            /\ promises' = DeleteSlot(reg.promises, name)
                       ELSE /\ slot' = reg.slot
                            /\ promises' = reg.promises
                    /\ built' = reg.built
                    /\ resources' = Store(resources, [name |-> name,
                                                      requires |-> resource.requires,
                                                      provider |-> resource.provider])
                    /\ invoked' = InvokedByDeclare(name, mapped.returned)
                    /\ UNCHANGED args

\* a call of promiseFor(name) from outside
PromiseFor(name) ==
    LET r == promiseFor(Registry, name)
    IN  /\ promises' = r.reg.promises
        /\ slot' = r.reg.slot
        /\ built' = r.reg.built
        /\ UNCHANGED <<resources, all, promise, result, invoked, args, thrown, last, fetches, xhr>>

\* get undeclared(): Object.keys(this._promises)
undeclared == promises
\* the default comparison of Array.prototype.sort: by UTF-16 code units
RECURSIVE UnitsBefore(_, _)
UnitsBefore(a, b) ==
    IF b = <<>> THEN FALSE
    ELSE IF a = <<>> THEN TRUE
    ELSE IF Head(a) # Head(b) THEN Head(a) < Head(b)
    ELSE UnitsBefore(Tail(a), Tail(b))

Before(x, y) == UnitsBefore(CodeUnits(x), CodeUnits(y))

\* keys.sort(): the keys are distinct, so whatever order Object.keys lists
\* them in, the sorted array is the one that has the least key first
RECURSIVE Sort(_)
Sort(keys) ==
    IF keys = {} THEN <<>>
    ELSE LET least == CHOOSE x \in keys : \A y \in keys \ {x} : Before(x, y)
         IN  <<least>> \o Sort(keys \ {least})

\* [Symbol.iterator](): the array the iterator closes over
Iterator(rs) ==
    LET sorted == Sort(Keys(rs))
    IN  [i \in 1..Len(sorted) |-> resourceByName(rs, sorted[i])]

\* next(): { value: resources.shift(), done: resources.length < 1 }
IteratorNext(list) ==
    LET rest == IF list = <<>> THEN <<>> ELSE Tail(list)
    IN  [value |-> IF list = <<>> THEN NoResource ELSE Head(list),
         done  |-> Len(rest) < 1,
         rest  |-> rest]

\* for (let resource of iterator): the values the loop body sees
RECURSIVE ForOf(_)
ForOf(list) ==
    LET r == IteratorNext(list)
    IN  IF r.done THEN <<>> ELSE <<r.value>> \o ForOf(r.rest)

(***************************************************************************)
(* Promise reactions (microtasks)                                          *)
(***************************************************************************)
\* the promise object a reference names
Deref(ref) == IF ref.kind = "resource" THEN promise[ref.name] ELSE slot[ref.name]

\* Promise.allSettled in place of Promise.all: a rejection counts as a value
AllElementStep_Settled(p, i, element) ==
    LET seen == p.seen \cup {i}
    IN  [p EXCEPT !.seen = seen,
                  !.values[i] = element.value,
                  !.state = IF @ = "pending" /\ seen = 1..Len(p.elements)
                            THEN "fulfilled" ELSE @]

\* Promise.all's reaction to its i-th element settling
AllElementStep(p, i, element) ==
    IF element.state = "rejected"
    THEN [p EXCEPT !.seen = @ \cup {i},
                   !.state = IF @ = "pending" THEN "rejected" ELSE @,
                   !.reason = IF p.state = "pending" THEN element.value ELSE @]
    ELSE LET seen == p.seen \cup {i}
         IN  [p EXCEPT !.seen = seen,
                       !.values[i] = element.value,
                       !.state = IF @ = "pending" /\ seen = 1..Len(p.elements)
                                 THEN "fulfilled" ELSE @]

AllElement(n, i) ==
    /\ all[n].state # "none"
    /\ i \in 1..Len(all[n].elements)
    /\ i \notin all[n].seen
    /\ Settled(Deref(all[n].elements[i]))
    /\ all' = [all EXCEPT ![n] = AllElementStep(@, i, Deref(@.elements[i]))]
    /\ UNCHANGED <<resources, promises, slot, built, promise, result, invoked, args, thrown, last, fetches, xhr>>

\* the placeholder, resolved with resource.promise, takes its outcome
SlotFollow(n) ==
    /\ slot[n].state = "following"
    /\ Settled(promise[n])
    /\ slot' = [slot EXCEPT ![n] = promise[n]]
    /\ UNCHANGED <<resources, promises, built, all, promise, result, invoked, args, thrown, last, fetches, xhr>>

\* what a provider call can do, by the kind of provider
Behaviours(provider) ==
    IF provider.calls \in {"fetchScript", "fetchJson"}
    THEN {"future"}
    ELSE {"return", "throw", "future"}

\* () => Promise.resolve(getScript(this.script)), () => Promise.resolve(ajax(this.json)):
\* the provider of a script or json resource calls its fetcher with the URL
Fetch(calls, provider) ==
    IF provider.kind = "function" THEN calls
    ELSE IF Len(calls) < MaxCount THEN Append(calls, <<provider.calls, provider.url>>)
    ELSE calls

\* resolveWith called without waiting for Promise.all
ThenDue_NoWait(n) ==
    /\ promise[n].state = "pending"
    /\ result[n].state = "none"
    /\ all[n].state \in {"pending", "fulfilled", "rejected"}

\* resolveWith called again while the provider's future is pending
ThenDue_Again(n) ==
    /\ promise[n].state = "pending"
    /\ result[n].state \in {"none", "pending"}
    /\ all[n].state \in {"fulfilled", "rejected"}

\* the reaction of .then((dependencies) => resource.resolveWith(dependencies)) is due
ThenDue(n) ==
    /\ promise[n].state = "pending"
    /\ result[n].state = "none"
    /\ all[n].state \in {"fulfilled", "rejected"}

\* resolveWith(dependencies): Promise.resolve(this.provider(...dependencies))
resolveWith(n, behaviour) ==
    CASE behaviour = "return" -> Fulfilled(Value(n))
      [] behaviour = "future" -> Pending
      [] behaviour = "throw"  -> [state |-> "thrown", value |-> Failure(n)]

Then(n, behaviour) ==
    /\ ThenDue(n)
    /\ IF all[n].state = "rejected"
       THEN \* no rejection handler: the failure passes through
            /\ behaviour = "return"
            /\ promise' = [promise EXCEPT ![n] = RejectedWith(all[n].reason)]
            /\ UNCHANGED <<result, invoked, args, fetches>>
       ELSE /\ behaviour \in Behaviours(resourceByName(resources, n).provider)
            /\ invoked' = [invoked EXCEPT ![n] = IF @ < MaxCount THEN @ + 1 ELSE @]
            /\ args' = [args EXCEPT ![n] = all[n].values]
            /\ fetches' = [fetches EXCEPT ![n] = Fetch(@, resourceByName(resources, n).provider)]
            /\ LET r == resolveWith(n, behaviour)
               IN  IF r.state = "thrown"
                   THEN /\ promise' = [promise EXCEPT ![n] = RejectedWith(r.value)]
                        /\ result' = [result EXCEPT ![n] = RejectedWith(r.value)]
                   ELSE /\ result' = [result EXCEPT ![n] = r]
                        /\ UNCHANGED promise
    /\ UNCHANGED <<resources, promises, slot, built, all, thrown, last, xhr>>

\* the future a provider returned settles (a fetch completes, a timer fires)
FutureSettles(n, ok) ==
    /\ result[n].state = "pending"
    /\ result' = [result EXCEPT ![n] =
                    IF ok THEN Fulfilled(Value(n)) ELSE RejectedWith(Failure(n))]
    /\ UNCHANGED <<resources, promises, slot, built, all, promise, invoked, args, thrown, last, fetches, xhr>>

\* resource.promise fulfilled with the promise resolveWith returned, as a value
Adopt_Unflattened(n) ==
    /\ promise[n].state = "pending"
    /\ result[n].state \in {"pending", "fulfilled", "rejected"}
    /\ promise' = [promise EXCEPT ![n] = Fulfilled(<<"future", n>>)]
    /\ UNCHANGED <<resources, promises, slot, built, all, result, invoked, args, thrown, last, fetches, xhr>>

\* resource.promise, resolved with the promise resolveWith returned, takes its outcome
Adopt(n) ==
    /\ promise[n].state = "pending"
    /\ Settled(result[n])
    /\ promise' = [promise EXCEPT ![n] = result[n]]
    /\ UNCHANGED <<resources, promises, slot, built, all, result, invoked, args, thrown, last, fetches, xhr>>

(***************************************************************************)
(* The callers                                                             *)
(***************************************************************************)
Definition(name, requires, provider, json) ==
    Obj([name |-> name, requires |-> requires, provider |-> provider,
         script |-> Undefined, json |-> json, getScript |-> Undefined, ajax |-> Undefined])

\* requires: no name, one name, or two names (the same one twice included)
RequiresArrays ==
    {Arr(<<>>)} \cup {Arr(<<Str(x)>>) : x \in Names}
    \cup {Arr(<<Str(x), Str(y)>>) : x \in Names, y \in Names}

\* the definitions the callers declare: { name, requires, [name]: function }
Definitions ==
    {Definition(Str(n), r, Fn, Undefined) : n \in Names, r \in RequiresArrays}

RECURSIVE Sum(_, _)
Sum(f, S) == IF S = {} THEN 0 ELSE LET x == CHOOSE x \in S : TRUE IN f[x] + Sum(f, S \ {x})

Edges(rs) == Sum([n \in Names |-> IF rs[n] = NoResource THEN 0 ELSE Len(rs[n].requires)], Names)

\* the run stays within MaxEdges
WithinBounds(definition) ==
    LET given == Field(definition, "requires")
    IN  Edges(resources) + (IF IsArray(given) THEN Len(given.items) ELSE 0) <= MaxEdges

\* the placeholders no resource's Promise.all waits on
DirectSlots ==
    {n \in Names : /\ built[n] > 0
                   /\ \A m \in Names : \A i \in 1..Len(all[m].elements) :
                         ~(all[m].elements[i].kind = "slot" /\ all[m].elements[i].name = n)}

\* the run stays within MaxDirect
MayAsk(n) == n \in Declared \/ n \in promises \/ Cardinality(DirectSlots) < MaxDirect

Next ==
    \/ \E d \in Definitions : WithinBounds(d) /\ declareResource(d)
    \/ \E n \in Names : MayAsk(n) /\ PromiseFor(n)
    \/ \E n \in Names : \E i \in 1..Len(all[n].elements) : AllElement(n, i)
    \/ \E n \in Names : SlotFollow(n)
    \/ \E n \in Names : \E b \in {"return", "throw", "future"} : Then(n, b)
    \/ \E n \in Names : \E ok \in BOOLEAN : FutureSettles(n, ok)
    \/ \E n \in Names : Adopt(n)

Spec == Init /\ [][Next]_vars
(***************************************************************************)
(* Properties                                                              *)
(***************************************************************************)
\* the keys the entries of resource.requires are looked up with
RequiredKeys(resource) ==
    [i \in 1..Len(resource.requires) |-> ToPropertyKey(resource.requires[i])]

\* the names resource n requires
Requires(n) ==
    IF resources[n] = NoResource THEN {}
    ELSE {RequiredKeys(resources[n])[i] : i \in 1..Len(resources[n].requires)}

\* the names n requires directly or through other declared resources
RECURSIVE Reach(_, _)
Reach(S, k) ==
    IF k = 0 THEN S ELSE Reach(S \cup UNION {Requires(m) : m \in S}, k - 1)

TransitiveRequires(n) == Reach(Requires(n), Cardinality(Names))

\* C1: a resource's producer is invoked only when every name in its
\* requires is declared and has settled successfully, its own producer
\* having run, whatever the order of the declarations.
C1_ProducerAfterDependencies ==
    \A n \in Names :
        invoked[n] > 0 =>
            \A d \in Requires(n) :
                /\ d \in Declared
                /\ promise[d].state = "fulfilled"
                /\ invoked[d] > 0

\* a resource declared before both of its dependencies has had its producer run
C1_Witness ==
    \E n \in Names :
        /\ invoked[n] > 0
        /\ Len(all[n].elements) = 2
        /\ all[n].elements[1].name # all[n].elements[2].name
        /\ \A i \in 1..2 : all[n].elements[i].kind = "slot"

\* C2: a producer is invoked at most once, and a settled resource keeps its
\* outcome: it stays registered, promiseFor keeps returning its promise, and
\* neither that promise nor a settled placeholder changes again.
C2_SettledOnce ==
    [][\A n \in Names :
          /\ invoked'[n] <= 1
          /\ Settled(promise[n]) =>
                /\ promise'[n] = promise[n]
                /\ invoked'[n] = invoked[n]
                /\ resources'[n] = resources[n]
                /\ promiseFor(Registry, n).returned = ResourcePromise(n)
          /\ Settled(slot[n]) => slot'[n] = slot[n]]_vars

\* a resource has settled after one producer call and its placeholder shows the same outcome
C2_Witness ==
    \E n \in Names :
        /\ Settled(promise[n])
        /\ invoked[n] = 1
        /\ slot[n] = promise[n]

\* C3: a future obtained from promiseFor(x) while x is undeclared stays
\* pending until x is declared, and once settled it holds exactly the
\* outcome of the resource declared as x.
C3_ForwardReference ==
    \A x \in Names :
        /\ x \notin Declared => slot[x].state = (IF built[x] > 0 THEN "pending" ELSE "none")
        /\ slot[x].state = "following" => x \in Declared /\ x \notin promises
        /\ Settled(slot[x]) => x \in Declared /\ slot[x] = promise[x]
        /\ (x \in Declared /\ built[x] > 0 /\ Settled(promise[x]))
              => slot[x] \in {ResolveSlot, promise[x]}

\* a placeholder handed out before the declaration has failed with the resource's failure
C3_Witness ==
    \E x \in Names :
        /\ built[x] = 1
        /\ slot[x] = RejectedWith(Failure(x))
        /\ promise[x] = RejectedWith(Failure(x))

\* C4: the i-th argument of a producer call is the settled value of the
\* resource named by the i-th entry of requires, whatever the order of
\* declaration or settlement, the same name twice included.
C4_ArgumentBinding ==
    \A n \in Names :
        invoked[n] > 0 =>
            /\ Len(args[n]) = Len(resources[n].requires)
            /\ \A i \in 1..Len(args[n]) :
                  /\ promise[RequiredKeys(resources[n])[i]].state = "fulfilled"
                  /\ args[n][i] = promise[RequiredKeys(resources[n])[i]].value

\* a producer was called with two different dependencies, the second declared first
C4_Witness ==
    \E n \in Names :
        /\ invoked[n] > 0
        /\ Len(args[n]) = 2
        /\ args[n][1] # args[n][2]
        /\ all[n].elements[1].kind = "slot"
        /\ all[n].elements[2].kind = "resource"

\* the declared dependencies of n whose settlement has failed
FailedRequires(n) == {d \in Requires(n) : promise[d].state = "rejected"}

\* C5 as claimed: a settled resource holds the failure of every failed
\* resource it depends on, directly or transitively, and its producer was
\* never invoked.
C5_SameFailureAsEveryFailedDependency ==
    \A n \in Declared : \A d \in TransitiveRequires(n) :
        promise[d].state = "rejected" =>
            /\ invoked[n] = 0
            /\ Settled(promise[n]) => promise[n] = promise[d]

\* C5, amended: a resource with a failed dependency never has its producer
\* invoked and can only settle as failed, with the unwrapped failure of one
\* of its failed direct dependencies; every failure a resource settles with
\* is the one its own producer raised or the one raised by the producer of
\* a resource it depends on directly or transitively.
C5_FailurePropagation ==
    \A n \in Declared :
        /\ FailedRequires(n) # {} =>
              /\ invoked[n] = 0
              /\ Settled(promise[n]) =>
                    /\ promise[n].state = "rejected"
                    /\ \E d \in FailedRequires(n) : promise[n] = promise[d]
        /\ promise[n].state = "rejected" =>
              \E x \in {n} \cup TransitiveRequires(n) :
                  /\ promise[n] = RejectedWith(Failure(x))
                  /\ promise[x] = RejectedWith(Failure(x))
                  /\ invoked[x] = 1
                  /\ x # n => invoked[n] = 0

\* a failure has gone down a chain of three resources, the dependents declared first
C5_Witness ==
    \E n \in Names : \E m \in Requires(n) \ {n} : \E x \in Requires(m) \ {n, m} :
        /\ promise[x] = RejectedWith(Failure(x))
        /\ promise[m] = RejectedWith(Failure(x))
        /\ promise[n] = RejectedWith(Failure(x))
        /\ invoked[n] = 0 /\ invoked[m] = 0
        /\ all[n].elements[1].kind = "slot"

\* the name a definition carries
NameOf(definition) == Field(definition, "name").s

\* C6: declareResource of a (well-formed) definition whose name is already
\* declared throws DuplicateResourceNameError and changes nothing; the
\* resource first declared under a name stays the one resourceByName returns,
\* with its requires, its provider and its promise.
C6_Uniqueness ==
    /\ [](\A d \in Definitions :
             NameOf(d) \in Declared => Throws(d) = "DuplicateResourceNameError")
    /\ [][/\ \A n \in Declared :
                /\ resourceByName(resources', n) = resourceByName(resources, n)
                /\ all'[n].elements = all[n].elements
                /\ promise'[n] = promise[n] \/ (promise[n] = Pending /\ Settled(promise'[n]))
          /\ (thrown' = "DuplicateResourceNameError" /\ thrown # thrown') =>
                UNCHANGED <<resources, promises, slot, built, all, promise, result, invoked, args>>
         ]_vars

\* a second declaration was refused and the first resource went on to settle
C6_Witness ==
    /\ thrown = "DuplicateResourceNameError"
    /\ \E n \in Declared : invoked[n] = 1 /\ promise[n] = Fulfilled(Value(n))

\* the names some declared resource requires that are not declared
RequiredUndeclared == (UNION {Requires(m) : m \in Declared}) \ Declared

\* C7: `undeclared` starts empty and always holds the undeclared names
\* that declared resources require; a successful declareResource(X) adds
\* the names of X.requires that are not declared and removes X; any other
\* change adds one undeclared name (a promiseFor call) and touches no
\* resource.
C7_UndeclaredTracking ==
    /\ undeclared = {}
    /\ [](/\ RequiredUndeclared \subseteq undeclared
          /\ undeclared \cap Declared = {})
    /\ [][IF resources' # resources
          THEN \E x \in Names \ Declared :
                  /\ resources' = [resources EXCEPT ![x] = resources'[x]]
                  /\ resources'[x] # NoResource
                  /\ undeclared' =
                        (undeclared \cup
                           ({RequiredKeys(resources'[x])[i] : i \in 1..Len(resources'[x].requires)}
                            \ Declared)) \ {x}
          ELSE \/ undeclared' = undeclared
               \/ \E n \in Names \ (Declared \cup undeclared) :
                     /\ undeclared' = undeclared \cup {n}
                     /\ UNCHANGED <<all, promise, result, invoked, args>>
         ]_vars

\* one required name has been declared since and has left, another is still outstanding
C7_Witness ==
    \E n \in Declared : \E d \in Requires(n) \ {n} : \E u \in Requires(n) \ {n} :
        /\ d \in Declared /\ built[d] = 1
        /\ \A i \in 1..Len(all[n].elements) : all[n].elements[i].kind = "slot"
        /\ undeclared = {u}

\* C8: for..of over the registry yields every declared resource exactly
\* once, in ascending name order, and nothing else: n items for n declared
\* resources.
C8_Enumeration ==
    LET yielded == ForOf(Iterator(resources))
        sorted  == Sort(Declared)
    IN  /\ Len(yielded) = Cardinality(Declared)
        /\ \A i \in 1..Len(yielded) : yielded[i] = resources[sorted[i]]

\* C9: no name is at once declared and outstanding; a declared name stays
\* declared and never becomes outstanding again.
C9_Exclusive ==
    /\ [](\A n \in Names : ~(n \in Declared /\ n \in undeclared))
    /\ [][\A n \in Declared : n \in Keys(resources') /\ n \notin undeclared']_vars

\* a name that was outstanding is now declared, while another is still outstanding
C9_Witness ==
    \E n \in Declared : \E m \in Declared \ {n} :
        /\ built[n] = 1
        /\ all[m].elements = <<SlotPromise(n, 1)>>
        /\ n \notin undeclared
        /\ undeclared # {}

\* C10: at most one placeholder is ever built for a name; while the name is
\* undeclared every promiseFor call returns that placeholder, also a second
\* call right after the first, and so do the calls made for dependent
\* resources; once the name is declared promiseFor returns the resource's
\* own promise and changes nothing.
C10_PromiseForIdempotent ==
    \A n \in Names :
        LET first == promiseFor(Registry, n)
        IN  /\ built[n] <= 1
            /\ n \in Declared =>
                  first = [reg |-> Registry, returned |-> ResourcePromise(n)]
            /\ n \notin Declared =>
                  /\ first.returned = SlotPromise(n, 1)
                  /\ built[n] > 0 => first.reg = Registry
                  /\ promiseFor(first.reg, n) = [reg |-> first.reg, returned |-> SlotPromise(n, 1)]
            /\ n \in Declared =>
                  \A i \in 1..Len(all[n].elements) :
                     LET d == RequiredKeys(resources[n])[i]
                     IN  \/ all[n].elements[i] = SlotPromise(d, 1)
                         \/ all[n].elements[i] = ResourcePromise(d) /\ d \in Declared

\* two resources wait on the one placeholder of a name that is still undeclared
C10_Witness ==
    \E d \in Names \ Declared : \E m1 \in Declared : \E m2 \in Declared \ {m1} :
        /\ built[d] = 1
        /\ all[m1].elements = <<SlotPromise(d, 1)>>
        /\ all[m2].elements = <<SlotPromise(d, 1)>>
        /\ promiseFor(Registry, d).returned = SlotPromise(d, 1)

\* no promise reaction is queued and no future of a producer is outstanding
Quiescent ==
    \A n \in Names :
        /\ \A i \in 1..Len(all[n].elements) :
              i \in all[n].seen \/ ~Settled(Deref(all[n].elements[i]))
        /\ ~(slot[n].state = "following" /\ Settled(promise[n]))
        /\ ~ThenDue(n)
        /\ result[n].state # "pending"
        /\ ~(promise[n].state = "pending" /\ Settled(result[n]))

\* the resources that end fulfilled, by the definitions and what the producers did
RECURSIVE EndFulfilled(_, _)
EndFulfilled(S, k) ==
    IF k = 0 THEN S
    ELSE EndFulfilled(S \cup {n \in Declared : /\ Requires(n) \subseteq S
                                               /\ result[n].state = "fulfilled"}, k - 1)

\* the resources that end failed, by the definitions and what the producers did
RECURSIVE EndRejected(_, _)
EndRejected(S, k) ==
    IF k = 0 THEN S
    ELSE EndRejected(S \cup {n \in Declared :
                                \/ Requires(n) \cap S # {}
                                \/ /\ Requires(n) \subseteq EndFulfilled({}, Cardinality(Names))
                                   /\ result[n].state = "rejected"}, k - 1)

\* how resource n ends
EndState(n) ==
    IF n \in EndFulfilled({}, Cardinality(Names)) THEN "fulfilled"
    ELSE IF n \in EndRejected({}, Cardinality(Names)) THEN "rejected"
    ELSE "pending"

\* C11, amended: whatever the order of the declarations and of the promise
\* reactions, a producer is called with the values of the resources its
\* requires names, a resource that succeeds holds its producer's value, a
\* resource that fails holds the failure of its own producer or of the
\* producer of a resource it depends on, and once nothing is left to run
\* each resource is fulfilled, failed or pending as the definitions and
\* the producers' results alone determine.
C11_OrderIndependence ==
    \A n \in Declared :
        /\ invoked[n] > 0 =>
              args[n] = [i \in 1..Len(resources[n].requires) |-> Value(RequiredKeys(resources[n])[i])]
        /\ promise[n].state = "fulfilled" => promise[n] = Fulfilled(Value(n))
        /\ promise[n].state = "rejected" =>
              \E x \in {n} \cup TransitiveRequires(n) :
                  /\ promise[n] = RejectedWith(Failure(x))
                  /\ result[x] = RejectedWith(Failure(x))
        /\ Quiescent => promise[n].state = EndState(n)

\* C11 as claimed: the failure a resource ends with is the same in every
\* order too, so a resource still waiting for its dependencies never has
\* two different failures to take.
C11_SameOutcomeInEveryOrder ==
    /\ C11_OrderIndependence
    /\ \A n \in Declared :
          all[n].state = "pending" =>
              Cardinality({Deref(all[n].elements[i]).value :
                             i \in {j \in 1..Len(all[n].elements) :
                                       Deref(all[n].elements[j]).state = "rejected"}}) <= 1

\* a chain of three has run to the end, the dependent declared first and the
\* middle resource declared after the one it requires
C11_Witness ==
    /\ Quiescent
    /\ \E n \in Declared : \E m \in Requires(n) \ {n} : \E x \in Requires(m) \ {n, m} :
          /\ all[n].elements = <<SlotPromise(m, 1)>>
          /\ all[m].elements = <<ResourcePromise(x)>>
          /\ promise[n] = Fulfilled(Value(n))
          /\ args[n] = <<Value(m)>>
          /\ args[m] = <<Value(x)>>

\* a queued promise reaction runs
Microtask ==
    \E n \in Names :
        \/ \E i \in 1..Len(all[n].elements) : AllElement(n, i)
        \/ SlotFollow(n)
        \/ \E b \in {"return", "throw", "future"} : Then(n, b)
        \/ Adopt(n)

\* the job queue runs every reaction that is queued, and every future a
\* producer returned settles
FairSpec ==
    /\ Spec
    /\ WF_vars(Microtask)
    /\ WF_vars(\E n \in Names : \E ok \in BOOLEAN : FutureSettles(n, ok))

\* n is declared, with everything it requires, and no cycle among them
Complete(n) ==
    /\ n \in Declared
    /\ TransitiveRequires(n) \subseteq Declared
    /\ \A m \in {n} \cup TransitiveRequires(n) : m \notin TransitiveRequires(m)

\* C12: once a resource is declared together with every name it requires,
\* directly or transitively, and there is no cycle among them, its promise
\* eventually settles; it settles as failed only if one of the producers
\* involved failed.
C12_Completion ==
    \A n \in Names :
        Complete(n) ~>
            /\ Settled(promise[n])
            /\ promise[n].state = "rejected" =>
                  \E x \in {n} \cup TransitiveRequires(n) : result[x].state = "rejected"

\* a resource declared before the two it requires has settled after they did
C12_Witness ==
    \E n \in Names :
        /\ Complete(n)
        /\ Cardinality(Requires(n)) = 2
        /\ \A i \in 1..2 : all[n].elements[i].kind = "slot"
        /\ promise[n] = Fulfilled(Value(n))
        /\ invoked[n] = 1

\* C13 as claimed: while a name that a declared resource requires, directly
\* or through other declared resources, is not declared, the resource's
\* promise is pending, its producer has not been invoked, and the missing
\* name is in `undeclared`.
C13_PendingWhileUndeclared ==
    \A n \in Declared : \A u \in TransitiveRequires(n) \ Declared :
        /\ promise[n].state = "pending"
        /\ invoked[n] = 0
        /\ u \in undeclared

\* C13, amended: while such a name is not declared, the resource's promise
\* is never fulfilled and its producer is never invoked, the missing name is
\* in `undeclared` with its placeholder pending, and the promise is pending
\* unless another resource it depends on has failed, whose producer's
\* failure it then holds.
C13_UndeclaredDependency ==
    \A n \in Declared : \A u \in TransitiveRequires(n) \ Declared :
        /\ promise[n].state \in {"pending", "rejected"}
        /\ invoked[n] = 0
        /\ result[n] = NoResult
        /\ u \in undeclared
        /\ slot[u] = Pending
        /\ promise[n].state = "rejected" =>
              \E x \in TransitiveRequires(n) \cap Declared :
                  /\ promise[n] = RejectedWith(Failure(x))
                  /\ result[x] = RejectedWith(Failure(x))
        /\ (\A d \in TransitiveRequires(n) \cap Declared : promise[d].state # "rejected")
              => promise[n] = Pending

\* a resource waits for a name two steps away that nobody has declared, with
\* nothing left to run
C13_Witness ==
    /\ Quiescent
    /\ \E n \in Declared : \E m \in Declared \ {n} : \E u \in Names \ Declared :
          /\ Requires(n) = {m}
          /\ Requires(m) = {u}
          /\ promise[n] = Pending /\ promise[m] = Pending
          /\ undeclared = {u}

\* the run stays within MaxCycleEdges
WithinCycleBounds(definition) ==
    Edges(resources) + Len(Field(definition, "requires").items) <= MaxCycleEdges

\* callers that only declare resources, with more dependencies among them
NextCycle ==
    \/ \E d \in Definitions : WithinCycleBounds(d) /\ declareResource(d)
    \/ \E n \in Names : \E i \in 1..Len(all[n].elements) : AllElement(n, i)
    \/ \E n \in Names : SlotFollow(n)
    \/ \E n \in Names : \E b \in {"return", "throw", "future"} : Then(n, b)
    \/ \E n \in Names : \E ok \in BOOLEAN : FutureSettles(n, ok)
    \/ \E n \in Names : Adopt(n)

SpecCycle == Init /\ [][NextCycle]_vars

\* n is declared and requires itself, directly or through declared resources
OnCycle(n) == n \in Declared /\ n \in TransitiveRequires(n)

\* n is on a cycle that goes through another resource
OnCycleWith(n) == {m \in TransitiveRequires(n) \ {n} : n \in TransitiveRequires(m)}

\* declareResource accepts every new name, whatever it requires
NoCycleDetection ==
    \A d \in Definitions : NameOf(d) \notin Declared => Throws(d) = "none"

\* C14 as claimed: resources that require each other, all declared, never
\* settle; their producers are never invoked, no declareResource call
\* fails on their account, and none of them is in `undeclared`.
C14_CycleNeverSettles ==
    /\ NoCycleDetection
    /\ \A n \in Declared :
          OnCycleWith(n) # {} =>
              /\ promise[n] = Pending
              /\ invoked[n] = 0
              /\ n \notin undeclared

\* C14, amended: a resource on a cycle is never fulfilled and its producer
\* is never invoked, no declareResource call fails on its account, and it
\* is not in `undeclared`; it stays pending unless a resource off the cycle
\* that it depends on has failed, whose producer's failure it then holds.
C14_CycleDeadlock ==
    /\ NoCycleDetection
    /\ \A n \in Declared :
          OnCycle(n) =>
              /\ promise[n].state \in {"pending", "rejected"}
              /\ invoked[n] = 0
              /\ result[n] = NoResult
              /\ n \notin undeclared
              /\ promise[n].state = "rejected" =>
                    \E x \in TransitiveRequires(n) :
                        /\ ~OnCycle(x)
                        /\ promise[n] = RejectedWith(Failure(x))
                        /\ result[x] = RejectedWith(Failure(x))
              /\ (\A d \in TransitiveRequires(n) : promise[d].state # "rejected")
                    => promise[n] = Pending

\* two resources that require each other are declared and nothing is left to
\* run, a third resource having settled meanwhile
C14_Witness ==
    /\ Quiescent
    /\ thrown = "none"
    /\ undeclared = {}
    /\ \E n \in Declared : \E m \in Declared \ {n} :
          /\ Requires(n) = {m}
          /\ Requires(m) = {n}
          /\ promise[n] = Pending /\ promise[m] = Pending
          /\ all[n].elements = <<SlotPromise(m, 1)>>
          /\ all[m].elements = <<ResourcePromise(n)>>
          /\ \E x \in Declared \ {n, m} : promise[x] = Fulfilled(Value(x))

\* the declared resources that require n
Dependents(n) == {m \in Declared : n \in Requires(m)}

\* C15: while the future a producer returned is pending, the resource's
\* promise is pending and no producer of a dependent is invoked; the
\* resource's promise settles only after the future has, with the future's
\* value or failure, never with the future itself, and that value is what
\* the producers of dependents are called with.
C15_Flattening ==
    /\ [](\A n \in Declared :
             /\ result[n].state = "pending" =>
                   /\ promise[n] = Pending
                   /\ invoked[n] = 1
                   /\ \A m \in Dependents(n) : invoked[m] = 0 /\ promise[m].state # "fulfilled"
             /\ (Settled(promise[n]) /\ invoked[n] > 0) =>
                   /\ promise[n] = result[n]
                   /\ promise[n] \in {Fulfilled(Value(n)), RejectedWith(Failure(n))}
             /\ invoked[n] > 0 =>
                   \A i \in 1..Len(args[n]) : args[n][i] = Value(RequiredKeys(resources[n])[i]))
    /\ [][\A n \in Declared :
             /\ (result[n].state = "pending" /\ result'[n] # result[n]) =>
                   /\ result'[n] \in {Fulfilled(Value(n)), RejectedWith(Failure(n))}
                   /\ promise'[n] = Pending
             /\ (result[n].state # "none" /\ promise[n] = Pending /\ promise'[n] # Pending) =>
                   /\ Settled(result[n])
                   /\ promise'[n] = result[n]
         ]_vars

\* a producer has returned a future that is still pending; a dependent that was
\* declared first waits for it, its other dependency already fulfilled
C15_Witness ==
    \E n \in Declared : \E m \in Dependents(n) \ {n} : \E x \in Requires(m) \ {n, m} :
        /\ result[n] = Pending
        /\ invoked[n] = 1
        /\ promise[n] = Pending
        /\ promise[x] = Fulfilled(Value(x))
        /\ all[m].state = "pending"
        /\ all[m].seen # {}
        /\ slot[n].state = "following"

(***************************************************************************)
(* Callers that declare every kind of definition                           *)
(***************************************************************************)
DefinitionOf(name, requires, provider, script, json, getScript, ajax) ==
    Obj([name |-> name, requires |-> requires, provider |-> provider,
         script |-> script, json |-> json, getScript |-> getScript, ajax |-> ajax])

\* what is passed where a definition object is expected
NonObjects == {Undefined, Null, Num(1), Str("a"), Bool(TRUE), Bool(FALSE)}

NameValues == {Undefined, Str(""), Str("a"), Str("B")}

\* a plain object with no property the constructor reads
EmptyObject == Obj([f \in {} |-> Undefined])

RequiresValues ==
    {Undefined, Num(0), Num(1), Str("B"), EmptyObject,
     Arr(<<>>), Arr(<<Str("a")>>), Arr(<<Num(1)>>)}

ProviderValues == {Undefined, Fn, Num(1)}

ScriptValues == {Undefined, Str("s.js"), Num(1)}

JsonValues == {Undefined, Str("d.json"), Num(1)}

\* a definition for each way of being malformed, and of several at once
Malformed ==
    {DefinitionOf(nm, r, p, sc, js, Undefined, Undefined) :
        nm \in NameValues, r \in RequiresValues, p \in ProviderValues,
        sc \in ScriptValues, js \in JsonValues}

\* definitions that differ from { name, [name]: function } in their requires
\* or in their source
Varied ==
    {DefinitionOf(Str(n), r, Fn, Undefined, Undefined, Undefined, Undefined) :
        n \in {"a", "B"}, r \in RequiresValues}
    \cup {DefinitionOf(Str(n), Undefined, Undefined, sc, js, g, x) :
        n \in {"a", "B"}, sc \in {Undefined, Str("s.js")}, js \in {Undefined, Str("d.json")},
        g \in {Undefined, Fn}, x \in {Undefined, Fn}}

\* the definitions the constructor refuses
Refused == {d \in NonObjects \cup Malformed \cup Varied : Resource(d).error # "none"}

\* the definitions the constructor accepts
Accepted == {d \in Varied : Resource(d).error = "none"}

\* the run stays within MaxValidateEdges
WithinValidateBounds(definition) ==
    Edges(resources) + Len(Resource(definition).requires) <= MaxValidateEdges

\* the run stays within MaxValidateDeclared: a definition the constructor
\* refuses is tried on a registry at rest that holds few resources
AtRest ==
    /\ thrown = "none"
    /\ Cardinality(Declared) <= MaxValidateDeclared
    /\ Quiescent

NextValidate ==
    \/ \E d \in Accepted : WithinValidateBounds(d) /\ declareResource(d)
    \/ AtRest /\ \E d \in Refused : declareResource(d)
    \/ \E n \in Names : \E i \in 1..Len(all[n].elements) : AllElement(n, i)
    \/ \E n \in Names : SlotFollow(n)
    \/ \E n \in Names : \E b \in {"return", "throw", "future"} : Then(n, b)
    \/ \E n \in Names : \E ok \in BOOLEAN : FutureSettles(n, ok)
    \/ \E n \in Names : Adopt(n)

SpecValidate == Init /\ [][NextValidate]_vars

\* C16: declareResource of anything that is not an object (undefined, null,
\* a number, a string, a boolean) throws InvalidResourceError.
C16_NonObjectRejected ==
    (last # NoCall /\ last.definition.t \in {"undefined", "null", "number", "string", "boolean"})
        => thrown = "InvalidResourceError"

\* C17: every registered resource's requires is a sequence of strings, and
\* a definition whose requires is a number other than 0, an object or an
\* array with an element that is not a string is refused with
\* InvalidRequiresError.
C17_RequiresValidated ==
    /\ \A n \in Declared :
          \A i \in 1..Len(resources[n].requires) : resources[n].requires[i].t = "string"
    /\ (/\ last # NoCall
        /\ last.definition.t = "object"
        /\ last.name.truthy
        /\ (last.requires.t \in {"number", "object"} /\ last.requires.truthy) \/ ~last.strings)
          => thrown = "InvalidRequiresError"

\* how many of the three producer sources a definition carries
Sources(shape) ==
    Cardinality({f \in {"provider", "script", "json"} : shape[f].t # "undefined"})

\* C18: declareResource returns only for a definition that carries exactly
\* one of the three producer sources; with none, two or three of them it
\* throws.
C18_ExactlyOneSource ==
    (last # NoCall /\ thrown = "none") => Sources(last) = 1

\* the definition got past the checks of its name and of its requires
PastRequires(shape) ==
    /\ shape.definition.t = "object"
    /\ shape.name.truthy
    /\ shape.requires.t \in {"string", "array"} \/ ~shape.requires.truthy

\* the definition carries a property named after the resource, and json or script
CarriesBoth(shape) ==
    /\ shape.provider.t # "undefined"
    /\ shape.script.t # "undefined" \/ shape.json.t # "undefined"

\* C19: a definition that carries a property named after the resource (of
\* any defined value) together with json or script is refused with
\* InvalidResourceError, whether its URL is a string or not, and the call
\* registers nothing and starts no producer and no fetch.
C19_NoOwnProviderWithUrl ==
    /\ []((last # NoCall /\ PastRequires(last) /\ CarriesBoth(last))
             => thrown = "InvalidResourceError")
    /\ [][(/\ <<last, thrown>>' # <<last, thrown>>
           /\ PastRequires(last') /\ CarriesBoth(last'))
             => /\ thrown' = "InvalidResourceError"
                /\ UNCHANGED <<resources, promises, slot, built, all, promise, result,
                               invoked, args, fetches>>
         ]_vars

\* a definition with a function of its own and a json that is not a string was
\* refused as an invalid resource, not as an invalid URL, on a registry that
\* already held a resource
C19_Witness ==
    /\ thrown = "InvalidResourceError"
    /\ last # NoCall
    /\ PastRequires(last)
    /\ last.provider.t = "function"
    /\ last.json.t = "number"
    /\ last.script.t = "undefined"
    /\ Declared # {}
    /\ \A n \in Names : fetches[n] = <<>>

\* the function the provider of a definition of this shape is to call
FetcherFor(shape) ==
    IF shape.script.t # "undefined"
    THEN (IF shape.getScript.t = "function" THEN "getScript" ELSE "fetchScript")
    ELSE IF shape.json.t # "undefined"
    THEN (IF shape.ajax.t = "function" THEN "ajax" ELSE "fetchJson")
    ELSE "provider"

\* C20: the provider of a script or json resource calls one function, once,
\* with the resource's URL: the override of its kind (getScript for script,
\* ajax for json) when the definition supplies a function, the built-in
\* fetcher otherwise; what that call gives, flattened, is the resource's
\* settlement. A resource with a function of its own fetches nothing.
C20_FetcherOverride ==
    /\ [](\A n \in Declared :
             LET provider == resources[n].provider
             IN  /\ provider.kind = "function" => fetches[n] = <<>>
                 /\ provider.kind # "function" =>
                       /\ invoked[n] <= 1
                       /\ Len(fetches[n]) = invoked[n]
                       /\ \A i \in 1..Len(fetches[n]) : fetches[n][i] = <<provider.calls, provider.url>>
                       /\ provider.url.t = "string"
                       /\ provider.calls \in (IF provider.kind = "script"
                                              THEN {"getScript", "fetchScript"}
                                              ELSE {"ajax", "fetchJson"})
                       /\ result[n].state = "pending" => promise[n] = Pending
                       /\ Settled(promise[n]) =>
                             /\ promise[n] = result[n]
                             /\ promise[n] \in {Fulfilled(Value(n)), RejectedWith(Failure(n))})
    /\ [][\A n \in Names :
             resources'[n] # resources[n] =>
                 /\ resources'[n].provider.calls = FetcherFor(last')
                 /\ resources'[n].provider.kind # "function" =>
                       resources'[n].provider.url \in {Str("s.js"), Str("d.json")}
         ]_vars

\* a json resource declared with an ajax override has called it once with its
\* URL and holds what it gave, while a script resource without an override
\* has called the built-in loader
C20_Witness ==
    \E n \in Declared : \E m \in Declared \ {n} :
        /\ resources[n].provider.calls = "ajax"
        /\ fetches[n] = << <<"ajax", Str("d.json")>> >>
        /\ invoked[n] = 1
        /\ promise[n] = Fulfilled(Value(n))
        /\ fetches[m] = << <<"fetchScript", Str("s.js")>> >>

(***************************************************************************)
(* xhrFetch and fetchJson                                                  *)
(***************************************************************************)
\* a response without a `status` property
NoStatus == [t |-> "undefined"]

\* the status codes the transport answers with
Statuses == {Num(0), Num(199), Num(200), Num(299), Num(300), Num(404), NoStatus}

\* getResponseHeader('Content-Type'): null when the header is absent, else
\* the header's text, a string of characters
ContentTypes ==
    {Null, Str(<<>>), Str(<<"j", "s", "o", "n">>), Str(<<"J", "s", "O", "N">>),
     Str(<<"x", "/", "j", "s", "o", "n", ";">>), Str(<<"j", "s">>), Str(<<"h", "t", "m", "l">>)}

\* responseText
Bodies == {Str("1"), Str("null"), Str("{"), Str("")}

Responses ==
    {[status |-> st, type |-> ct, responseText |-> b] :
        st \in Statuses, ct \in ContentTypes, b \in Bodies}

\* the transport fails: onerror is called instead of onload
NetworkError == [status |-> NoStatus, type |-> Null, responseText |-> Str("onerror")]

\* a character, case folded as the i flag does
Fold(c) ==
    CASE c = "J" -> "j"
      [] c = "S" -> "s"
      [] c = "O" -> "o"
      [] c = "N" -> "n"
      [] OTHER -> c

\* text.match(/json/i): truthy when "json" occurs in the text, in any case
MatchJson(text) ==
    \E i \in 1..Len(text) :
        /\ i + 3 <= Len(text)
        /\ <<Fold(text[i]), Fold(text[i + 1]), Fold(text[i + 2]), Fold(text[i + 3])>>
              = <<"j", "s", "o", "n">>

\* JSON.parse(text): the value, or the SyntaxError thrown
JSONParse(text) ==
    CASE text = Str("1")    -> [threw |-> FALSE, value |-> Num(1)]
      [] text = Str("null") -> [threw |-> FALSE, value |-> Null]
      [] OTHER              -> [threw |-> TRUE, value |-> "SyntaxError"]

\* response.status is not 0 and outside 200..299
Unsuccessful(status) ==
    IF status = NoStatus THEN FALSE
    ELSE status.n # 0 /\ (status.n < 200 \/ status.n >= 300)

\* xhr.onload: reject and resolve are called one after the other without a
\* return in between; the promise keeps what the first call gave it
XhrOnLoad(response) ==
    IF response.status = NoStatus THEN RejectedWith("FetchError")
    ELSE IF Unsuccessful(response.status) THEN RejectedWith("FetchError")
    ELSE Fulfilled(response)

\* how many times onload calls reject or resolve
XhrOnLoadCalls(response) ==
    (IF response.status = NoStatus THEN 1 ELSE 0)
    + (IF Unsuccessful(response.status) THEN 1 ELSE 0)
    + 1

\* the callback fetchJson passes to then
FetchJsonThen(response) ==
    LET type == response.type
    IN  IF type = Null THEN RejectedWith("TypeError")
        ELSE IF ~MatchJson(type.s) THEN RejectedWith("FetchError")
        ELSE IF JSONParse(response.responseText).threw THEN RejectedWith("FetchError")
        ELSE Fulfilled(JSONParse(response.responseText).value)

\* fetchJson(url) has been called and the request sent
InitFetch ==
    /\ resources = [n \in PropertyKeys |-> NoResource]
    /\ promises = {}
    /\ slot = [n \in PropertyKeys |-> [state |-> "none", value |-> NoValue]]
    /\ built = [n \in PropertyKeys |-> 0]
    /\ all = [n \in PropertyKeys |-> NoAll]
    /\ promise = [n \in PropertyKeys |-> [state |-> "none", value |-> NoValue]]
    /\ result = [n \in PropertyKeys |-> NoResult]
    /\ invoked = [n \in PropertyKeys |-> 0]
    /\ args = [n \in PropertyKeys |-> <<>>]
    /\ thrown = "none"
    /\ last = NoCall
    /\ fetches = [n \in PropertyKeys |-> <<>>]
    /\ \E r \in Responses \cup {NetworkError} :
          xhr = [stage |-> "sent", response |-> r, calls |-> 0,
                 promise |-> Pending, json |-> Pending]

\* xhr.onload = function getScriptOnLoad(response)
OnLoad ==
    /\ xhr.stage = "sent"
    /\ xhr.response # NetworkError
    /\ xhr' = [xhr EXCEPT !.stage = "answered",
                          !.promise = XhrOnLoad(xhr.response),
                          !.calls = XhrOnLoadCalls(xhr.response)]
    /\ UNCHANGED <<resources, promises, slot, built, all, promise, result, invoked, args,
                   thrown, last, fetches>>

\* xhr.onerror = function getScriptOnError(err)
OnError ==
    /\ xhr.stage = "sent"
    /\ xhr.response = NetworkError
    /\ xhr' = [xhr EXCEPT !.stage = "answered",
                          !.promise = RejectedWith("FetchError"),
                          !.calls = 1]
    /\ UNCHANGED <<resources, promises, slot, built, all, promise, result, invoked, args,
                   thrown, last, fetches>>

\* xhrFetch(url, method).then((response) => ...): the reaction to its settling;
\* a rejection passes through
FetchJsonReaction ==
    /\ xhr.stage = "answered"
    /\ xhr' = [xhr EXCEPT !.stage = "done",
                          !.json = IF xhr.promise.state = "rejected" THEN xhr.promise
                                   ELSE FetchJsonThen(xhr.promise.value)]
    /\ UNCHANGED <<resources, promises, slot, built, all, promise, result, invoked, args,
                   thrown, last, fetches>>

NextFetch == OnLoad \/ OnError \/ FetchJsonReaction

SpecFetch == InitFetch /\ [][NextFetch]_vars

\* the response is a success for the transport, says it is JSON and parses
GoodResponse(response) ==
    /\ response # NetworkError
    /\ response.status # NoStatus
    /\ ~Unsuccessful(response.status)
    /\ response.type # Null
    /\ MatchJson(response.type.s)
    /\ ~JSONParse(response.responseText).threw

\* C21: whatever the response, fetchJson's promise is rejected with a
\* FetchError, and nothing else, when the status is not a success, the
\* content type is absent or not JSON, or the body does not parse, and is
\* fulfilled with the parsed value otherwise; xhrFetch's promise rejected
\* for a non-success answer stays rejected.
C21_FetchJsonOutcome ==
    /\ xhr.stage = "done" =>
          xhr.json = (IF GoodResponse(xhr.response)
                      THEN Fulfilled(JSONParse(xhr.response.responseText).value)
                      ELSE RejectedWith("FetchError"))
    /\ (xhr.stage \in {"answered", "done"} /\ ~GoodResponse(xhr.response)
        /\ (xhr.response = NetworkError \/ xhr.response.status = NoStatus
            \/ Unsuccessful(xhr.response.status)))
          => xhr.promise = RejectedWith("FetchError")

\* the construction rules a definition of this shape violates, in the order
\* they are to be reported: 1 not an object, 2 no name, 3 malformed requires,
\* 4 conflicting sources, 5 a URL that is not a string, 6 no callable producer
Violated(shape) ==
    IF shape.definition.t \notin {"object", "array"} THEN {1}
    ELSE {i \in 1..6 :
            CASE i = 1 -> FALSE
              [] i = 2 -> ~shape.name.truthy
              [] i = 3 -> \/ shape.requires.truthy /\ shape.requires.t \notin {"string", "array"}
                          \/ ~shape.strings
              [] i = 4 -> Sources(shape) >= 2
              [] i = 5 -> \/ shape.script.t \notin {"undefined", "string"}
                          \/ shape.json.t \notin {"undefined", "string"}
              [] i = 6 -> \/ Sources(shape) = 0
                          \/ shape.provider.t \notin {"undefined", "function"}}

\* the failure kind of each rule
KindOfRule ==
    <<"InvalidResourceError", "UnnamedResourceError", "InvalidRequiresError",
      "InvalidResourceError", "InvalidUrlError", "InvalidProviderError">>

\* C22: a definition that violates several construction rules is refused
\* with the failure kind of the first of them, and a duplicate name is
\* reported only for a definition that violates none.
C22_ValidationOrder ==
    last # NoCall =>
        /\ Cardinality(Violated(last)) >= 2 =>
              thrown = KindOfRule[CHOOSE i \in Violated(last) : \A j \in Violated(last) : i <= j]
        /\ thrown = "DuplicateResourceNameError" => Violated(last) = {}

\* C23: a declareResource call that throws, for a definition the
\* constructor refuses or for a duplicate name, leaves the declared
\* resources and `undeclared` as they were, builds no placeholder for the
\* names the definition requires, and starts no producer and no fetch; no
\* promise is settled by the call.
C23_FailedDeclareChangesNothing ==
    [][(thrown' # "none" /\ <<last, thrown>>' # <<last, thrown>>)
          => /\ UNCHANGED <<resources, promises, slot, built, all, promise, result,
                            invoked, args, fetches>>
             /\ undeclared' = undeclared
             /\ Keys(resources') = Declared
      ]_vars

\* a definition that requires an undeclared name 'B' was refused for the
\* duplicate name it carries: no placeholder exists
C23_Witness ==
    /\ thrown = "DuplicateResourceNameError"
    /\ last.requires.t = "string"
    /\ undeclared = {}
    /\ \A n \in PropertyKeys : built[n] = 0 /\ slot[n].state = "none"
    /\ \E n \in Declared : resources[n].requires = <<>> /\ Settled(promise[n])

\* C24 as claimed: _resources and _promises change only in a step that is a
\* declareResource call.
C24_OnlyDeclareMutates ==
    [][(resources' # resources \/ promises' # promises)
          => \E d \in Definitions : declareResource(d)]_vars

\* C24, amended: _resources and _promises change only in a step that is a
\* declareResource call or a promiseFor call for a name that is neither
\* declared nor outstanding, which adds that name to _promises; no promise
\* reaction changes either of them.
C24_RegistryMutations ==
    [][(resources' # resources \/ promises' # promises)
          => \/ \E d \in Definitions : declareResource(d)
             \/ \E n \in Names \ (Declared \cup promises) :
                   /\ PromiseFor(n)
                   /\ resources' = resources
                   /\ promises' = promises \cup {n}]_vars

\* reactions have run to the end for two resources, one waiting on the other's
\* placeholder, and the only outstanding name is one that an outside
\* promiseFor call asked for
C24_Witness ==
    /\ Quiescent
    /\ Cardinality(promises) = 1
    /\ promises = DirectSlots
    /\ \E n \in Declared : \E m \in Declared \ {n} :
          /\ all[n].elements = <<SlotPromise(m, 1)>>
          /\ slot[m] = promise[m]
          /\ Settled(promise[n])

\* C25: a declareResource call invokes no producer, also when the resource
\* requires nothing or only settled resources: it leaves the new resource
\* pending. A producer is invoked in a later step that is no declareResource
\* call, for a resource that is registered and whose Promise.all is
\* fulfilled, after the producers of everything it requires.
C25_NoProducerInsideDeclare ==
    [][/\ (resources' # resources \/ <<last, thrown>>' # <<last, thrown>>) =>
             /\ invoked' = invoked
             /\ args' = args
             /\ result' = result
             /\ \A n \in Names : resources'[n] # resources[n] => promise'[n] = Pending
       /\ \A n \in Names :
             invoked'[n] # invoked[n] =>
                 /\ n \in Declared
                 /\ resources' = resources
                 /\ all[n].state = "fulfilled"
                 /\ promise[n] = Pending
                 /\ \A d \in Requires(n) : invoked[d] > 0 /\ promise[d].state = "fulfilled"
      ]_vars

\* three resources have been declared, the one with no dependencies first, and
\* no producer has run yet although its Promise.all is fulfilled
C25_Witness ==
    \E n \in Declared : \E m \in Requires(n) \ {n} : \E x \in Requires(m) \ {n, m} :
        /\ x \in Declared /\ m \in Declared
        /\ Requires(x) = {}
        /\ all[x].state = "fulfilled"
        /\ all[m].elements = <<ResourcePromise(x)>>
        /\ all[n].elements = <<ResourcePromise(m)>>
        /\ \A k \in Names : invoked[k] = 0 /\ promise[k] = Pending

=============================================================================
